---- MODULE Spec2Model ----
(***************************************************************************)
(* LevelManager of Bizarre Underground (src/src/systems/LevelManager.ts):  *)
(* discrete level progression 1-50, BEAST MODE from level 51, and the      *)
(* furthest-level counter kept in localStorage.                            *)
(*                                                                         *)
(* JavaScript values are modelled explicitly: a number is Number(n) or     *)
(* NaN, a string is a sequence of one-character strings, and localStorage  *)
(* holds either no item or a string under the furthest-level key.          *)
(*                                                                         *)
(* Web3Manager (src/src/utils/Web3Utils.ts) is modelled after it: the      *)
(* wallet connection through AppKit and the scores kept per wallet.        *)
(***************************************************************************)
EXTENDS Integers, Sequences, FiniteSets, TLC

VARIABLES
  currentLevel,   \* LevelManager.currentLevel
  localStorage,   \* item 'bizarreUnderground_furthestLevel': [has, val]
  storageMode,    \* "ok", or the access that throws: "readThrows", "writeThrows"
  lastCall,       \* name of the last method called on the manager
  arg,            \* argument of the last call (0 when it takes none)
  returned,       \* value the last call returned
  config,         \* LevelConfig returned by the last getLevelConfig call
  calls,          \* nextLevel() calls since construction, NotFresh once
                  \* setCurrentLevel/resetToStart intervened
  spawn,          \* getEnemyTypesForFloor: its arguments, the requests it made to
                  \* EnemySpawningSystem, the answer it got and what it returned
  selection,      \* EnemySpawningSystem.selectEnemies: the state of its draw loop
  audit,          \* history: the furthest level read when the audit began and the
                  \* highest level nextLevel/setCurrentLevel have set since
  isInitialized,      \* Web3Manager.isInitialized
  currentAddress,     \* Web3Manager.currentAddress
  appKitState,        \* what appKit.getState() returns: [isConnected, address]
  stateUpdates,       \* state changes AppKit has not yet delivered to the subscriber
  bz_wallet,          \* localStorage item 'bz_wallet'
  bz_lastConnected,   \* localStorage item 'bz_lastConnected'
  now,                \* Date.now(), counted in days
  walletChanged,      \* detail.address of the walletChanged event the last step dispatched
  connecting,         \* the connect() call: its timers and the promise it returned
  bz_walletScores,    \* localStorage item 'bz_walletScores'
  saving,             \* the saveScoreOnChain() call: where it is and what it returned
  submitted           \* history: per wallet, how often each score was submitted

\* the state of Web3Manager, of AppKit and of the wallet keys of localStorage
web3vars ==
  <<isInitialized, currentAddress, appKitState, stateUpdates, bz_wallet,
    bz_lastConnected, now, walletChanged, connecting, bz_walletScores, saving,
    submitted>>

\* the state of LevelManager and of EnemySpawningSystem
levelvars ==
  <<currentLevel, localStorage, storageMode, lastCall, arg, returned, config, calls,
    spawn, selection, audit>>

vars == <<levelvars, web3vars>>

----------------------------------------------------------------------------
(* Bounds of the model *)

MaxLevel == 52      \* nextLevel() is unbounded in the code; levels are explored up to here
MaxFloor == 31      \* floors passed to isLevelComplete and getEnemyTypesForFloor
MaxAnswer == 2      \* length of the selections EnemySpawningSystem answers with
MaxBudget == 6      \* budgets handed to selectEnemies
MaxScore == 3       \* scores handed to saveScoreOnChain
MaxPending == 2     \* state changes AppKit holds back before it notifies
MaxPolls == 3       \* polls of connect() up to its timeout (120 in the code)
MaxDay == 8         \* days the clock runs
MaxSubmissions == 2  \* scores submitted by connected wallets after the earlier ones

(* Program constants *)

BEAST_MODE_LEVEL == 51
MAX_PROGRESSION_LEVEL == 50

----------------------------------------------------------------------------
(* JavaScript values *)

Number(n) == [t |-> "number", n |-> n, b |-> FALSE]
NaN == [t |-> "NaN", n |-> 0, b |-> FALSE]
Bool(b) == [t |-> "boolean", n |-> 0, b |-> b]
Undefined == [t |-> "undefined", n |-> 0, b |-> FALSE]

\* outcome of a call that ended with an exception instead of returning
Threw == [t |-> "throw", n |-> 0, b |-> FALSE]

\* a > b on JavaScript numbers: false as soon as one side is NaN
Gt(a, b) == a.t = "number" /\ b.t = "number" /\ a.n > b.n

Min(a, b) == IF a <= b THEN a ELSE b

Digits == <<"0", "1", "2", "3", "4", "5", "6", "7", "8", "9">>

IsDigit(c) == \E d \in 1..10 : Digits[d] = c

DigitVal(c) == (CHOOSE d \in 1..10 : Digits[d] = c) - 1

RECURSIVE NatToString(_)
NatToString(n) ==
  IF n < 10 THEN <<Digits[n + 1]>>
  ELSE NatToString(n \div 10) \o <<Digits[(n % 10) + 1]>>

\* Number.prototype.toString() of an integer
toString(n) == IF n < 0 THEN <<"-">> \o NatToString(-n) ELSE NatToString(n)

\* the leading decimal digits of s, folded into their value; acc < 0: none seen yet
RECURSIVE ParseDigits(_, _)
ParseDigits(s, acc) ==
  IF s = <<>> \/ ~IsDigit(Head(s)) THEN acc
  ELSE ParseDigits(Tail(s), (IF acc < 0 THEN 0 ELSE acc) * 10 + DigitVal(Head(s)))

\* parseInt(s): optional sign, then the longest prefix of digits; NaN when there is none
parseInt(s) ==
  LET neg == s # <<>> /\ Head(s) = "-"
      body == IF s # <<>> /\ Head(s) \in {"-", "+"} THEN Tail(s) ELSE s
      v == ParseDigits(body, -1)
  IN IF v < 0 THEN NaN ELSE Number(IF neg THEN -v ELSE v)

----------------------------------------------------------------------------
(* localStorage *)

NoItem == [has |-> FALSE, val |-> <<>>]
Item(s) == [has |-> TRUE, val |-> s]

\* localStorage.getItem('bizarreUnderground_furthestLevel') || '1'
getItemOrDefault(ls) == IF ls.has /\ ls.val # <<>> THEN ls.val ELSE <<"1">>

StorageModes == {"ok", "readThrows", "writeThrows"}

\* what the key may hold when a session starts: nothing, an empty string,
\* text that is no number, a number followed by text, or an earlier furthest level
InitialItems ==
  {NoItem, Item(<<>>), Item(<<"p">>), Item(<<"0">>), Item(<<"7">>), Item(<<"9", "p">>)}

----------------------------------------------------------------------------
(* EnemySpawningSystem: the contract LevelManager consumes *)

getSpawnWeights(configLevel) ==
  [blue |-> 100 - configLevel, yellow |-> 50, green |-> configLevel, red |-> configLevel \div 2]

getDifficultyBudget(configLevel, floorNumber) ==
  2 + configLevel \div 5 + Min(floorNumber, 30) \div 10

----------------------------------------------------------------------------
(* LevelConfig derivation *)

\* variant: the skill-building phase ends one level early (< 25 for <= 25)
calculateFloorCount_earlyRamp(levelNumber) ==
  IF levelNumber >= BEAST_MODE_LEVEL THEN -1
  ELSE IF levelNumber <= 10 THEN 10 + levelNumber \div 5
  ELSE IF levelNumber < 25 THEN 13 + ((levelNumber - 10) * 5) \div 15
  ELSE IF levelNumber <= 40 THEN 19 + ((levelNumber - 25) * 6) \div 15
  ELSE 25 + ((levelNumber - 40) * 5) \div 10

\* variant: the infinite-floor sentinel starts one level late (> for >=)
calculateFloorCount_lateSentinel(levelNumber) ==
  IF levelNumber > BEAST_MODE_LEVEL THEN -1
  ELSE IF levelNumber <= 10 THEN 10 + levelNumber \div 5
  ELSE IF levelNumber <= 25 THEN 13 + ((levelNumber - 10) * 5) \div 15
  ELSE IF levelNumber <= 40 THEN 19 + ((levelNumber - 25) * 6) \div 15
  ELSE 25 + ((levelNumber - 40) * 5) \div 10

calculateFloorCount(levelNumber) ==
  IF levelNumber >= BEAST_MODE_LEVEL THEN -1
  ELSE IF levelNumber <= 10 THEN 10 + levelNumber \div 5
  ELSE IF levelNumber <= 25 THEN 13 + ((levelNumber - 10) * 5) \div 15
  ELSE IF levelNumber <= 40 THEN 19 + ((levelNumber - 25) * 6) \div 15
  ELSE 25 + ((levelNumber - 40) * 5) \div 10

getEnemyTypes(levelNumber) == <<"blue", "yellow", "green", "red">>

\* variant: the treasure chests added for testing are missing at levels 4-6
getCollectibleTypes_noChest(levelNumber) ==
  IF levelNumber <= 2 THEN <<"coin", "treasureChest", "invincibilityPendant">>
  ELSE IF levelNumber <= 3 THEN <<"coin", "blueCoin", "treasureChest", "invincibilityPendant">>
  ELSE IF levelNumber <= 6
    THEN <<"coin", "blueCoin", "diamond", "freeLife", "invincibilityPendant">>
  ELSE <<"coin", "blueCoin", "diamond", "freeLife", "invincibilityPendant", "treasureChest">>

getCollectibleTypes(levelNumber) ==
  IF levelNumber <= 2 THEN <<"coin", "treasureChest", "invincibilityPendant">>
  ELSE IF levelNumber <= 3 THEN <<"coin", "blueCoin", "treasureChest", "invincibilityPendant">>
  ELSE IF levelNumber <= 6
    THEN <<"coin", "blueCoin", "diamond", "freeLife", "invincibilityPendant", "treasureChest">>
  ELSE <<"coin", "blueCoin", "diamond", "freeLife", "invincibilityPendant", "treasureChest">>

\* variant: the first widening comes one level late (<= 25 for < 25)
getWorldWidth_late(levelNumber) ==
  IF levelNumber <= 25 THEN 24
  ELSE IF levelNumber < 50 THEN 32
  ELSE 40

getWorldWidth(levelNumber) ==
  IF levelNumber < 25 THEN 24
  ELSE IF levelNumber < 50 THEN 32
  ELSE 40

\* variant: the difficulty lookups use levelNumber itself, not the capped level
getLevelConfig_uncapped(levelNumber) ==
  LET isBeast == levelNumber >= BEAST_MODE_LEVEL
      configLevel == levelNumber
      weights == getSpawnWeights(configLevel)
  IN [levelNumber |-> levelNumber,
      floorCount |-> calculateFloorCount(levelNumber),
      enemyTypes |-> getEnemyTypes(configLevel),
      collectibleTypes |-> getCollectibleTypes(configLevel),
      worldWidth |-> getWorldWidth(configLevel),
      isEndless |-> isBeast,
      difficultyBudgetPerFloor |-> getDifficultyBudget(configLevel, 1),
      enemySpawnWeights |-> weights]

getLevelConfig(levelNumber) ==
  LET isBeast == levelNumber >= BEAST_MODE_LEVEL
      configLevel == Min(levelNumber, MAX_PROGRESSION_LEVEL)
      weights == getSpawnWeights(configLevel)
  IN [levelNumber |-> levelNumber,
      floorCount |-> calculateFloorCount(levelNumber),
      enemyTypes |-> getEnemyTypes(configLevel),
      collectibleTypes |-> getCollectibleTypes(configLevel),
      worldWidth |-> getWorldWidth(configLevel),
      isEndless |-> isBeast,
      difficultyBudgetPerFloor |-> getDifficultyBudget(configLevel, 1),
      enemySpawnWeights |-> weights]

\* placeholder of config while the last call was not getLevelConfig
NoConfig ==
  [levelNumber |-> 0, floorCount |-> 0, enemyTypes |-> <<>>, collectibleTypes |-> <<>>,
   worldWidth |-> 0, isEndless |-> FALSE, difficultyBudgetPerFloor |-> 0,
   enemySpawnWeights |-> [blue |-> 0, yellow |-> 0, green |-> 0, red |-> 0]]

----------------------------------------------------------------------------
(* Queries, as the value the method returns in a given state *)

\* variant: the endless check is missing
isLevelComplete_noEndless(level, currentFloor) ==
  LET cfg == getLevelConfig(level)
  IN currentFloor >= cfg.floorCount

isLevelComplete(level, currentFloor) ==
  LET cfg == getLevelConfig(level)
  IN IF cfg.isEndless THEN FALSE ELSE currentFloor >= cfg.floorCount

\* variant: BEAST MODE starts one level late (> for >=)
isBeastMode_late(level) == level > BEAST_MODE_LEVEL

isBeastMode(level) == level >= BEAST_MODE_LEVEL

getMaxProgressionLevel == MAX_PROGRESSION_LEVEL

\* getFurthestLevel(): a throwing read is caught and answered with 1
getFurthestLevel(ls, mode) ==
  IF mode = "readThrows" THEN Number(1)
  ELSE parseInt(getItemOrDefault(ls))

\* variant: the current level is written without comparing it to the stored one
saveProgress_unguarded(level, ls, mode) ==
  IF mode = "readThrows" THEN ls
  ELSE IF mode = "writeThrows" THEN ls ELSE Item(toString(level))

\* saveProgress(): the item after the call. A throwing getItem or setItem
\* leaves it as it was (the catch only warns).
saveProgress(level, ls, mode) ==
  IF mode = "readThrows" THEN ls
  ELSE LET furthestLevel == parseInt(getItemOrDefault(ls))
       IN IF Gt(Number(level), furthestLevel)
            THEN IF mode = "writeThrows" THEN ls ELSE Item(toString(level))
            ELSE ls

\* variant: saveProgress without its try/catch
saveProgressThrows_noCatch(level, ls, mode) ==
  LET raised == \/ mode = "readThrows"
                \/ /\ mode = "writeThrows"
                   /\ Gt(Number(level), parseInt(getItemOrDefault(ls)))
  IN raised

\* saveProgress(): does an exception leave it? getItem raises in mode
\* "readThrows", setItem (reached only when the level is a new furthest one)
\* in mode "writeThrows"; the catch around both takes every exception.
saveProgressThrows(level, ls, mode) ==
  LET raised == \/ mode = "readThrows"
                \/ /\ mode = "writeThrows"
                   /\ Gt(Number(level), parseInt(getItemOrDefault(ls)))
      caught == raised
  IN raised /\ ~caught

----------------------------------------------------------------------------
(* State machine *)

NotFresh == -1

\* no getEnemyTypesForFloor call was made, no selectEnemies loop is running
NoSpawn ==
  [pc |-> "idle", levelNumber |-> 0, floorNumber |-> 0,
   requests |-> <<>>, answer |-> <<>>, enemies |-> <<>>]

NoSelection ==
  [pc |-> "idle", budget |-> 0, configLevel |-> 0, remaining |-> 0,
   selected |-> <<>>, iterations |-> 0]

\* level numbers outside the contract (<= 0) that setCurrentLevel still accepts
InvalidLevels == {0}

\* JavaScript null; used as the key of an object it is the string 'null'
null == "null"

\* the accounts of the user's wallet
Addresses == {"0xA", "0xB"}

\* the scores a game can end with
Scores == 1..MaxScore

\* AppKit's state for the connected account, or for none
State(address) == [isConnected |-> address # null, address |-> address]

\* the last step dispatched no walletChanged event
NoEvent == "none"

\* connect() was not called
NotConnecting ==
  [opened |-> FALSE, interval |-> FALSE, timeout |-> FALSE, polls |-> 0,
   promise |-> "none", value |-> null]

\* saveScoreOnChain() was not called
NotSaving ==
  [pc |-> "idle", scoreData |-> [address |-> null, score |-> 0], result |-> null]

NoneSubmitted == [wallet \in Addresses |-> [score \in Scores |-> 0]]

\* a Web3Manager just constructed, in a browser that holds none of its keys
Web3Idle ==
  /\ isInitialized = FALSE
  /\ currentAddress = null
  /\ appKitState = State(null)
  /\ stateUpdates = <<>>
  /\ bz_wallet = NoItem
  /\ bz_lastConnected = NoItem
  /\ now = 0
  /\ walletChanged = NoEvent
  /\ connecting = NotConnecting
  /\ bz_walletScores = NoItem
  /\ saving = NotSaving
  /\ submitted = NoneSubmitted

\* the levels set are not recorded
NoAudit == [on |-> FALSE, initial |-> 0, highest |-> 0]

\* nextLevel/setCurrentLevel set the current level to level
Audited(a, level) ==
  IF a.on THEN [a EXCEPT !.highest = IF level > @ THEN level ELSE @] ELSE a

Init ==
  /\ currentLevel = 1
  /\ localStorage \in InitialItems
  /\ storageMode \in StorageModes
  /\ lastCall = "constructor"
  /\ arg = 0
  /\ returned = Undefined
  /\ config = NoConfig
  /\ calls = 0
  /\ spawn = NoSpawn
  /\ selection = NoSelection
  /\ audit = NoAudit
  /\ Web3Idle

\* variant: the constructor restores the furthest level as current level
NewLevelManager_restores ==
  /\ currentLevel' = LET stored == getFurthestLevel(localStorage, storageMode)
                     IN IF stored.t = "number" THEN stored.n ELSE 1
  /\ storageMode' \in StorageModes
  /\ lastCall' = "constructor"
  /\ UNCHANGED <<spawn, selection, audit, web3vars>>
  /\ arg' = 0
  /\ returned' = Undefined
  /\ config' = NoConfig
  /\ calls' = 0
  /\ UNCHANGED localStorage

\* new LevelManager() in a later session over the same localStorage
NewLevelManager ==
  /\ currentLevel' = 1
  /\ storageMode' \in StorageModes
  /\ lastCall' = "constructor"
  /\ UNCHANGED <<spawn, selection, audit, web3vars>>
  /\ arg' = 0
  /\ returned' = Undefined
  /\ config' = NoConfig
  /\ calls' = 0
  /\ UNCHANGED localStorage

\* variant: the level stops at MAX_PROGRESSION_LEVEL
NextLevel_capped ==
  /\ currentLevel < MaxLevel
  /\ currentLevel' = Min(currentLevel + 1, MAX_PROGRESSION_LEVEL)
  /\ localStorage' = saveProgress(currentLevel', localStorage, storageMode)
  /\ lastCall' = "nextLevel"
  /\ audit' = Audited(audit, currentLevel')
  /\ UNCHANGED <<spawn, selection, web3vars>>
  /\ arg' = 0
  /\ returned' = IF saveProgressThrows(currentLevel', localStorage, storageMode)
                   THEN Threw ELSE Number(currentLevel')
  /\ config' = NoConfig
  /\ calls' = IF calls = NotFresh THEN NotFresh ELSE calls + 1
  /\ UNCHANGED storageMode

\* variant: progress is saved before the level is incremented
NextLevel_saveFirst ==
  /\ currentLevel < MaxLevel
  /\ localStorage' = saveProgress(currentLevel, localStorage, storageMode)
  /\ currentLevel' = currentLevel + 1
  /\ lastCall' = "nextLevel"
  /\ audit' = Audited(audit, currentLevel')
  /\ UNCHANGED <<spawn, selection, web3vars>>
  /\ arg' = 0
  /\ returned' = IF saveProgressThrows(currentLevel + 1, localStorage, storageMode)
                   THEN Threw ELSE Number(currentLevel + 1)
  /\ config' = NoConfig
  /\ calls' = IF calls = NotFresh THEN NotFresh ELSE calls + 1
  /\ UNCHANGED storageMode

NextLevel ==
  /\ currentLevel < MaxLevel
  /\ currentLevel' = currentLevel + 1
  /\ localStorage' = saveProgress(currentLevel + 1, localStorage, storageMode)
  /\ lastCall' = "nextLevel"
  /\ audit' = Audited(audit, currentLevel')
  /\ UNCHANGED <<spawn, selection, web3vars>>
  /\ arg' = 0
  /\ returned' = IF saveProgressThrows(currentLevel + 1, localStorage, storageMode)
                   THEN Threw ELSE Number(currentLevel + 1)
  /\ config' = NoConfig
  /\ calls' = IF calls = NotFresh THEN NotFresh ELSE calls + 1
  /\ UNCHANGED storageMode

\* variant: the reset level is saved as the furthest level
ResetToStart_saves ==
  /\ currentLevel' = 1
  /\ localStorage' = IF storageMode = "ok" THEN Item(toString(1)) ELSE localStorage
  /\ lastCall' = "resetToStart"
  /\ UNCHANGED <<spawn, selection, audit, web3vars>>
  /\ arg' = 0
  /\ returned' = Undefined
  /\ config' = NoConfig
  /\ calls' = NotFresh
  /\ UNCHANGED storageMode

ResetToStart ==
  /\ currentLevel' = 1
  /\ lastCall' = "resetToStart"
  /\ UNCHANGED <<spawn, selection, audit, web3vars>>
  /\ arg' = 0
  /\ returned' = Undefined
  /\ config' = NoConfig
  /\ calls' = NotFresh
  /\ UNCHANGED <<localStorage, storageMode>>

\* variant: the override does not save progress
SetCurrentLevel_noSave(level) ==
  /\ currentLevel' = level
  /\ lastCall' = "setCurrentLevel"
  /\ audit' = Audited(audit, level)
  /\ UNCHANGED <<spawn, selection, web3vars>>
  /\ arg' = level
  /\ returned' = Undefined
  /\ config' = NoConfig
  /\ calls' = NotFresh
  /\ UNCHANGED <<localStorage, storageMode>>

SetCurrentLevel(level) ==
  /\ currentLevel' = level
  /\ localStorage' = saveProgress(level, localStorage, storageMode)
  /\ lastCall' = "setCurrentLevel"
  /\ audit' = Audited(audit, level)
  /\ UNCHANGED <<spawn, selection, web3vars>>
  /\ arg' = level
  /\ returned' = IF saveProgressThrows(level, localStorage, storageMode)
                   THEN Threw ELSE Undefined
  /\ config' = NoConfig
  /\ calls' = NotFresh
  /\ UNCHANGED storageMode

GetCurrentLevel ==
  /\ lastCall' = "getCurrentLevel"
  /\ UNCHANGED <<spawn, selection, audit, web3vars>>
  /\ arg' = 0
  /\ returned' = Number(currentLevel)
  /\ config' = NoConfig
  /\ UNCHANGED <<currentLevel, localStorage, storageMode, calls>>

GetFurthestLevel ==
  /\ lastCall' = "getFurthestLevel"
  /\ UNCHANGED <<spawn, selection, audit, web3vars>>
  /\ arg' = 0
  /\ returned' = getFurthestLevel(localStorage, storageMode)
  /\ config' = NoConfig
  /\ UNCHANGED <<currentLevel, localStorage, storageMode, calls>>

IsBeastMode ==
  /\ lastCall' = "isBeastMode"
  /\ UNCHANGED <<spawn, selection, audit, web3vars>>
  /\ arg' = 0
  /\ returned' = Bool(isBeastMode(currentLevel))
  /\ config' = NoConfig
  /\ UNCHANGED <<currentLevel, localStorage, storageMode, calls>>

IsLevelComplete(currentFloor) ==
  /\ lastCall' = "isLevelComplete"
  /\ UNCHANGED <<spawn, selection, audit, web3vars>>
  /\ arg' = currentFloor
  /\ returned' = Bool(isLevelComplete(currentLevel, currentFloor))
  /\ config' = NoConfig
  /\ UNCHANGED <<currentLevel, localStorage, storageMode, calls>>

GetMaxProgressionLevel ==
  /\ lastCall' = "getMaxProgressionLevel"
  /\ UNCHANGED <<spawn, selection, audit, web3vars>>
  /\ arg' = 0
  /\ returned' = Number(getMaxProgressionLevel)
  /\ config' = NoConfig
  /\ UNCHANGED <<currentLevel, localStorage, storageMode, calls>>

\* variant: the queried level becomes the current level
GetLevelConfig_selects(levelNumber) ==
  /\ lastCall' = "getLevelConfig"
  /\ UNCHANGED <<spawn, selection, audit, web3vars>>
  /\ arg' = levelNumber
  /\ returned' = Undefined
  /\ config' = getLevelConfig(levelNumber)
  /\ currentLevel' = levelNumber
  /\ UNCHANGED <<localStorage, storageMode, calls>>

GetLevelConfig(levelNumber) ==
  /\ lastCall' = "getLevelConfig"
  /\ UNCHANGED <<spawn, selection, audit, web3vars>>
  /\ arg' = levelNumber
  /\ returned' = Undefined
  /\ config' = getLevelConfig(levelNumber)
  /\ UNCHANGED <<currentLevel, localStorage, storageMode, calls>>

Next ==
  \/ NewLevelManager
  \/ NextLevel
  \/ ResetToStart
  \/ \E level \in 1..MaxLevel : SetCurrentLevel(level)
  \/ \E level \in InvalidLevels : SetCurrentLevel(level)
  \/ GetCurrentLevel
  \/ GetFurthestLevel
  \/ IsBeastMode

Spec == Init /\ [][Next]_vars

\* level completion polled by the game loop while the player climbs, advances,
\* dies or picks a level; first session over an empty, working localStorage
InitComplete ==
  /\ Init
  /\ localStorage = NoItem
  /\ storageMode = "ok"

NextComplete ==
  \/ NextLevel
  \/ ResetToStart
  \/ \E level \in 1..MaxLevel : SetCurrentLevel(level)
  \/ \E level \in InvalidLevels : SetCurrentLevel(level)
  \/ \E currentFloor \in 0..MaxFloor : IsLevelComplete(currentFloor)

SpecComplete == InitComplete /\ [][NextComplete]_vars

\* every query interleaved with the level mutators; getLevelConfig is asked
\* for the same few level numbers in every state
QueryLevels == {0, 1, MAX_PROGRESSION_LEVEL, BEAST_MODE_LEVEL}

QueryFloors == {0, 10, MaxFloor}

\* levels picked by level select
JumpLevels == {1, 7, MAX_PROGRESSION_LEVEL, BEAST_MODE_LEVEL}

NextQueries ==
  \/ NextLevel
  \/ ResetToStart
  \/ \E level \in JumpLevels : SetCurrentLevel(level)
  \/ \E level \in InvalidLevels : SetCurrentLevel(level)
  \/ GetCurrentLevel
  \/ GetFurthestLevel
  \/ IsBeastMode
  \/ GetMaxProgressionLevel
  \/ \E currentFloor \in QueryFloors : IsLevelComplete(currentFloor)
  \/ \E levelNumber \in QueryLevels : GetLevelConfig(levelNumber)

SpecQueries == InitComplete /\ [][NextQueries]_vars

----------------------------------------------------------------------------
(* getEnemyTypesForFloor: delegation to EnemySpawningSystem *)

EnemyKinds == {"blue", "yellow", "green", "red"}

\* a call LevelManager makes to EnemySpawningSystem, with its two arguments
Request(fn, first, second) == [fn |-> fn, first |-> first, second |-> second]

\* what selectEnemies may answer: any sequence of enemy kinds (up to MaxAnswer)
Answers == UNION {[1..n -> EnemyKinds] : n \in 0..MaxAnswer}

\* getEnemyTypesForFloor(levelNumber, floorNumber) has been called
SpawnCall(levelNumber, floorNumber) ==
  [pc |-> "called", levelNumber |-> levelNumber, floorNumber |-> floorNumber,
   requests |-> <<>>, answer |-> <<>>, enemies |-> <<>>]

\* a manager on which getEnemyTypesForFloor is called, for every level and
\* every floor up to MaxFloor (one floor past the longest level)
InitSpawn ==
  /\ currentLevel = 1
  /\ localStorage \in InitialItems
  /\ storageMode = "ok"
  /\ lastCall = "constructor"
  /\ arg = 0
  /\ returned = Undefined
  /\ config = NoConfig
  /\ calls = 0
  /\ spawn \in {SpawnCall(levelNumber, floorNumber) :
                  levelNumber \in 1..MaxLevel, floorNumber \in 1..MaxFloor}
  /\ selection = NoSelection
  /\ audit = NoAudit
  /\ Web3Idle

\* variant: the requests carry levelNumber itself, not the capped level
GetEnemyTypesForFloor_uncapped ==
  /\ spawn.pc = "called"
  /\ \E answer \in Answers :
       LET configLevel == spawn.levelNumber
           budget == getDifficultyBudget(configLevel, spawn.floorNumber)
       IN spawn' = [spawn EXCEPT
                      !.pc = "returned",
                      !.requests =
                        <<Request("getDifficultyBudget", configLevel, spawn.floorNumber),
                          Request("selectEnemies", budget, configLevel)>>,
                      !.answer = answer,
                      !.enemies = answer]
  /\ lastCall' = "getEnemyTypesForFloor"
  /\ arg' = spawn.levelNumber
  /\ returned' = Undefined
  /\ config' = NoConfig
  /\ UNCHANGED <<currentLevel, localStorage, storageMode, calls, selection, audit,
                 web3vars>>

GetEnemyTypesForFloor ==
  /\ spawn.pc = "called"
  /\ \E answer \in Answers :
       LET configLevel == Min(spawn.levelNumber, MAX_PROGRESSION_LEVEL)
           budget == getDifficultyBudget(configLevel, spawn.floorNumber)
       IN spawn' = [spawn EXCEPT
                      !.pc = "returned",
                      !.requests =
                        <<Request("getDifficultyBudget", configLevel, spawn.floorNumber),
                          Request("selectEnemies", budget, configLevel)>>,
                      !.answer = answer,
                      !.enemies = answer]
  /\ lastCall' = "getEnemyTypesForFloor"
  /\ arg' = spawn.levelNumber
  /\ returned' = Undefined
  /\ config' = NoConfig
  /\ UNCHANGED <<currentLevel, localStorage, storageMode, calls, selection, audit,
                 web3vars>>

NextSpawn == GetEnemyTypesForFloor

SpecSpawn == InitSpawn /\ [][NextSpawn]_vars

----------------------------------------------------------------------------
(* EnemySpawningSystem.selectEnemies: the budget-constrained draw loop *)

\* difficulty cost of each enemy kind, consumed against the budget
EnemyCost == [blue |-> 1, yellow |-> 2, green |-> 3, red |-> 4]

\* safety cap on the number of draws of one selectEnemies call
SafetyIterationCap == 6

\* config levels selectEnemies is run for: first level, mid game, capped level
SelectLevels == {1, 25, MAX_PROGRESSION_LEVEL}

\* the kinds whose cost fits into the remaining budget
Affordable(remaining) == {kind \in EnemyKinds : EnemyCost[kind] <= remaining}

\* the kinds the weighted random choice can yield at a level: positive weight
Drawable(configLevel) == {kind \in EnemyKinds : getSpawnWeights(configLevel)[kind] > 0}

RECURSIVE SumCost(_)
SumCost(kinds) == IF kinds = <<>> THEN 0 ELSE EnemyCost[Head(kinds)] + SumCost(Tail(kinds))

\* selectEnemies(budget, configLevel) has been called
SelectCall(budget, configLevel) ==
  [pc |-> "selecting", budget |-> budget, configLevel |-> configLevel,
   remaining |-> budget, selected |-> <<>>, iterations |-> 0]

InitSelect ==
  /\ currentLevel = 1
  /\ localStorage = NoItem
  /\ storageMode = "ok"
  /\ lastCall = "constructor"
  /\ arg = 0
  /\ returned = Undefined
  /\ config = NoConfig
  /\ calls = 0
  /\ spawn = NoSpawn
  /\ selection \in {SelectCall(budget, configLevel) :
                      budget \in 0..MaxBudget, configLevel \in SelectLevels}
  /\ audit = NoAudit
  /\ Web3Idle

\* variant: a drawn kind is accepted without comparing its cost to the budget left
SelectDraw_overshoot(kind) ==
  /\ selection.pc = "selecting"
  /\ Affordable(selection.remaining) # {}
  /\ selection.iterations < SafetyIterationCap
  /\ kind \in Drawable(selection.configLevel)
  /\ selection' = [selection EXCEPT
                     !.iterations = @ + 1,
                     !.selected = Append(@, kind),
                     !.remaining = @ - EnemyCost[kind]]
  /\ UNCHANGED <<currentLevel, localStorage, storageMode, lastCall, arg, returned,
                 config, calls, spawn, audit, web3vars>>

\* one pass of the loop: a kind is drawn by weight and taken if affordable
SelectDraw(kind) ==
  /\ selection.pc = "selecting"
  /\ Affordable(selection.remaining) # {}
  /\ selection.iterations < SafetyIterationCap
  /\ kind \in Drawable(selection.configLevel)
  /\ selection' =
       IF EnemyCost[kind] <= selection.remaining
         THEN [selection EXCEPT
                 !.iterations = @ + 1,
                 !.selected = Append(@, kind),
                 !.remaining = @ - EnemyCost[kind]]
         ELSE [selection EXCEPT !.iterations = @ + 1]
  /\ UNCHANGED <<currentLevel, localStorage, storageMode, lastCall, arg, returned,
                 config, calls, spawn, audit, web3vars>>

\* variant: the loop is left only when no affordable kind remains
SelectReturn_noCap ==
  /\ selection.pc = "selecting"
  /\ Affordable(selection.remaining) = {}
  /\ selection' = [selection EXCEPT !.pc = "done"]
  /\ UNCHANGED <<currentLevel, localStorage, storageMode, lastCall, arg, returned,
                 config, calls, spawn, audit, web3vars>>

\* the loop ends: no affordable kind remains or the cap is reached
SelectReturn ==
  /\ selection.pc = "selecting"
  /\ \/ Affordable(selection.remaining) = {}
     \/ selection.iterations >= SafetyIterationCap
  /\ selection' = [selection EXCEPT !.pc = "done"]
  /\ UNCHANGED <<currentLevel, localStorage, storageMode, lastCall, arg, returned,
                 config, calls, spawn, audit, web3vars>>

NextSelect ==
  \/ \E kind \in EnemyKinds : SelectDraw(kind)
  \/ SelectReturn

SpecSelect == InitSelect /\ [][NextSelect]_vars

\* the loop is not suspended: a pass or the return that can run does run
SpecSelectFair == SpecSelect /\ WF_vars(NextSelect)

----------------------------------------------------------------------------
\* getLevelConfig applied to every level number, on a freshly constructed manager
NextConfig == \E levelNumber \in 0..MaxLevel : GetLevelConfig(levelNumber)

SpecConfig == Init /\ [][NextConfig]_vars

\* the manager over a working store that holds nothing or a level >= 1, with
\* the levels it sets recorded

ValidItems == {NoItem, Item(<<"1">>), Item(<<"7">>)}

InitProgress ==
  /\ currentLevel = 1
  /\ localStorage \in ValidItems
  /\ storageMode = "ok"
  /\ lastCall = "constructor"
  /\ arg = 0
  /\ returned = Undefined
  /\ config = NoConfig
  /\ calls = 0
  /\ spawn = NoSpawn
  /\ selection = NoSelection
  /\ audit = [on |-> TRUE, initial |-> getFurthestLevel(localStorage, storageMode).n,
              highest |-> 0]
  /\ Web3Idle

NextProgress ==
  \/ NextLevel
  \/ ResetToStart
  \/ \E level \in 1..MaxLevel : SetCurrentLevel(level)
  \/ \E level \in InvalidLevels : SetCurrentLevel(level)

SpecProgress == InitProgress /\ [][NextProgress]_vars

----------------------------------------------------------------------------
(* Web3Manager (src/src/utils/Web3Utils.ts): the wallet connection.  AppKit
   is an external library: its state changes when the user connects,
   switches or disconnects an account, and it notifies the subscriber of
   each change some time later.  Date.now() is counted in days. *)

SevenDays == 7

\* the time that passes between two page loads
DaySteps == {0, SevenDays, SevenDays + 1}

\* onAccountChanged(address)
onAccountChanged(address) ==
  /\ IF address # null
       THEN /\ bz_wallet' = Item(address)
            /\ bz_lastConnected' = Item(toString(now))
       ELSE /\ bz_wallet' = NoItem
            /\ UNCHANGED bz_lastConnected
  /\ walletChanged' = address

\* autoConnect(), state being what appKit.getState() returns
autoConnect(state) ==
  LET lastConnected == bz_lastConnected
      since == parseInt(lastConnected.val)
  IN IF ~lastConnected.has \/ lastConnected.val = <<>>
       THEN UNCHANGED <<currentAddress, bz_wallet, bz_lastConnected>>
     ELSE IF since.t = "number" /\ now - since.n > SevenDays
       THEN /\ bz_wallet' = NoItem
            /\ bz_lastConnected' = NoItem
            /\ UNCHANGED currentAddress
     ELSE /\ currentAddress' = IF state.isConnected THEN state.address
                                                    ELSE currentAddress
          /\ UNCHANGED <<bz_wallet, bz_lastConnected>>

\* initialize() of a manager not yet initialized; restored is the account of
\* the session AppKit has restored by the time autoConnect() reads its state
initialize(restored) ==
  /\ appKitState' = State(restored)
  /\ stateUpdates' = <<>>
  /\ isInitialized' = TRUE
  /\ autoConnect(State(restored))

\* resolve(value) on the promise of a connect() call: a settled promise stays
resolve(call, value) ==
  IF call.promise = "pending"
    THEN [call EXCEPT !.promise = "fulfilled", !.value = value]
    ELSE call

\* a new page load after some days: a new Web3Manager over the same localStorage
NewWeb3Manager(days) ==
  /\ isInitialized
  /\ now + days <= MaxDay
  /\ now' = now + days
  /\ isInitialized' = FALSE
  /\ currentAddress' = null
  /\ appKitState' = State(null)
  /\ stateUpdates' = <<>>
  /\ walletChanged' = NoEvent
  /\ connecting' = NotConnecting
  /\ saving' = NotSaving
  /\ UNCHANGED <<bz_wallet, bz_lastConnected, bz_walletScores, submitted>>
  /\ UNCHANGED levelvars

Initialize(restored) ==
  /\ ~isInitialized
  /\ initialize(restored)
  /\ walletChanged' = NoEvent
  /\ UNCHANGED <<now, connecting, bz_walletScores, saving, submitted>>
  /\ UNCHANGED levelvars

\* the user connects, switches or disconnects the account in the wallet
AppKitStateChange(address) ==
  /\ isInitialized
  /\ address # appKitState.address
  /\ Len(stateUpdates) < MaxPending
  /\ appKitState' = State(address)
  /\ stateUpdates' = Append(stateUpdates, address)
  /\ walletChanged' = NoEvent
  /\ UNCHANGED <<isInitialized, currentAddress, bz_wallet, bz_lastConnected, now,
                 connecting, bz_walletScores, saving, submitted>>
  /\ UNCHANGED levelvars

\* the callback given to appKit.subscribeState runs for the oldest change
SubscriptionCallback ==
  /\ stateUpdates # <<>>
  /\ LET address == Head(stateUpdates)
     IN IF address # currentAddress
          THEN /\ currentAddress' = address
               /\ onAccountChanged(address)
          ELSE /\ walletChanged' = NoEvent
               /\ UNCHANGED <<currentAddress, bz_wallet, bz_lastConnected>>
  /\ stateUpdates' = Tail(stateUpdates)
  /\ UNCHANGED <<isInitialized, appKitState, now, connecting, bz_walletScores, saving,
                 submitted>>
  /\ UNCHANGED levelvars

\* connect() up to the return of its promise: it initializes the manager if
\* needed, and appKit.open() opens the modal or throws.  One call at a time:
\* the timers of the previous call have fired or been cleared.
Connect(opens, restored) ==
  /\ ~connecting.interval
  /\ ~connecting.timeout
  /\ IF isInitialized
       THEN /\ restored = null
            /\ UNCHANGED <<isInitialized, appKitState, stateUpdates, currentAddress,
                           bz_wallet, bz_lastConnected>>
       ELSE initialize(restored)
  /\ connecting' =
       IF opens
         THEN [opened |-> TRUE, interval |-> TRUE, timeout |-> TRUE, polls |-> 0,
               promise |-> "pending", value |-> null]
         ELSE [opened |-> FALSE, interval |-> FALSE, timeout |-> FALSE, polls |-> 0,
               promise |-> "fulfilled", value |-> null]
  /\ walletChanged' = NoEvent
  /\ UNCHANGED <<now, bz_walletScores, saving, submitted>>
  /\ UNCHANGED levelvars

\* variant: the interval is not cleared when the connection is seen
ConnectPoll_keepsPolling ==
  /\ connecting.interval
  /\ connecting.polls < MaxPolls
  /\ IF appKitState.isConnected
       THEN /\ currentAddress' = appKitState.address
            /\ connecting' = resolve([connecting EXCEPT !.polls = @ + 1],
                                     appKitState.address)
       ELSE /\ connecting' = [connecting EXCEPT !.polls = @ + 1]
            /\ UNCHANGED currentAddress
  /\ walletChanged' = NoEvent
  /\ UNCHANGED <<isInitialized, appKitState, stateUpdates, bz_wallet, bz_lastConnected,
                 now, bz_walletScores, saving, submitted>>
  /\ UNCHANGED levelvars

\* one run of the 500 ms interval callback; the 60 s timeout lets at most
\* MaxPolls of them run
ConnectPoll ==
  /\ connecting.interval
  /\ connecting.polls < MaxPolls
  /\ IF appKitState.isConnected
       THEN /\ currentAddress' = appKitState.address
            /\ connecting' = resolve([connecting EXCEPT !.polls = @ + 1,
                                                        !.interval = FALSE],
                                     appKitState.address)
       ELSE /\ connecting' = [connecting EXCEPT !.polls = @ + 1]
            /\ UNCHANGED currentAddress
  /\ walletChanged' = NoEvent
  /\ UNCHANGED <<isInitialized, appKitState, stateUpdates, bz_wallet, bz_lastConnected,
                 now, bz_walletScores, saving, submitted>>
  /\ UNCHANGED levelvars

\* the 60 s timeout callback; the last poll is due at the same time and runs
\* before or after it
ConnectTimeout ==
  /\ connecting.timeout
  /\ connecting.polls >= MaxPolls - 1
  /\ connecting' = resolve([connecting EXCEPT !.interval = FALSE, !.timeout = FALSE],
                           null)
  /\ walletChanged' = NoEvent
  /\ UNCHANGED <<isInitialized, currentAddress, appKitState, stateUpdates, bz_wallet,
                 bz_lastConnected, now, bz_walletScores, saving, submitted>>
  /\ UNCHANGED levelvars

\* no LevelManager call is made
LevelIdle ==
  /\ currentLevel = 1
  /\ localStorage = NoItem
  /\ storageMode = "ok"
  /\ lastCall = "constructor"
  /\ arg = 0
  /\ returned = Undefined
  /\ config = NoConfig
  /\ calls = 0
  /\ spawn = NoSpawn
  /\ selection = NoSelection
  /\ audit = NoAudit

InitWallet == LevelIdle /\ Web3Idle

NextWallet ==
  \/ \E days \in DaySteps : NewWeb3Manager(days)
  \/ \E restored \in Addresses \cup {null} : Initialize(restored)
  \/ \E address \in Addresses \cup {null} : AppKitStateChange(address)
  \/ SubscriptionCallback
  \/ \E opens \in BOOLEAN, restored \in Addresses \cup {null} : Connect(opens, restored)
  \/ ConnectPoll
  \/ ConnectTimeout

SpecWallet == InitWallet /\ [][NextWallet]_vars

\* one page load, from the construction of the manager on; the browser runs
\* the callbacks of the timers that are set, so a poll or a timeout that is
\* due does not wait forever

NextConnect ==
  \/ \E restored \in Addresses \cup {null} : Initialize(restored)
  \/ \E address \in Addresses \cup {null} : AppKitStateChange(address)
  \/ SubscriptionCallback
  \/ \E opens \in BOOLEAN, restored \in Addresses \cup {null} : Connect(opens, restored)
  \/ ConnectPoll
  \/ ConnectTimeout

SpecConnect == InitWallet /\ [][NextConnect]_vars

SpecConnectFair == SpecConnect /\ WF_vars(ConnectPoll) /\ WF_vars(ConnectTimeout)

----------------------------------------------------------------------------
(* Web3Manager: the scores kept per wallet.  The item bz_walletScores holds
   JSON text; it is represented by the object the text encodes, a function
   from keys to lists of ScoreData, of which address and score are kept. *)

LeaderboardSize == 10

\* isConnected()
isConnected == isInitialized /\ appKitState.isConnected /\ currentAddress # null

EmptyTable == [key \in {} |-> <<>>]

\* JSON.parse(localStorage.getItem('bz_walletScores') || '{}')
parseWalletScores(item) == IF item.has THEN item.val ELSE EmptyTable

\* walletScores[key], an empty list when the key is new
walletList(table, key) == IF key \in DOMAIN table THEN table[key] ELSE <<>>

\* where the stable descending sort puts x into a list already sorted
insertByScore(sorted, x) ==
  LET before == {i \in 1..Len(sorted) : sorted[i].score >= x.score}
      n == Cardinality(before)
  IN SubSeq(sorted, 1, n) \o <<x>> \o SubSeq(sorted, n + 1, Len(sorted))

RECURSIVE sortByScore(_)
\* list.sort((a, b) => b.score - a.score)
sortByScore(list) ==
  IF list = <<>> THEN <<>>
  ELSE insertByScore(sortByScore(SubSeq(list, 1, Len(list) - 1)), list[Len(list)])

\* list.slice(0, n)
slice(list, n) == SubSeq(list, 1, Min(Len(list), n))

\* the table after scoreData is pushed to the list of key, sorted and cut
pushScore(table, key, scoreData) ==
  [k \in DOMAIN table \cup {key} |->
     IF k = key
       THEN slice(sortByScore(Append(walletList(table, key), scoreData)),
                  LeaderboardSize)
       ELSE table[k]]

\* nine scores that wallet 0xA saved on earlier days
PreviousScores ==
  [i \in 1..9 |-> [address |-> "0xA",
                   score |-> IF i = 1 THEN MaxScore ELSE IF i = 9 THEN 1 ELSE 2]]

\* scores counted so far, over all wallets
TotalSubmitted(counts) ==
  LET perWallet(wallet) ==
        LET sum[score \in 0..MaxScore] ==
              IF score = 0 THEN 0 ELSE counts[wallet][score] + sum[score - 1]
        IN sum[MaxScore]
  IN perWallet("0xA") + perWallet("0xB")

\* saveScoreOnChain(scoreData) up to its first await: not connected it returns
\* null, connected it waits for the signer
SaveScoreOnChain(score) ==
  /\ saving.pc # "awaitSigner"
  /\ TotalSubmitted(submitted) < Len(PreviousScores) + MaxSubmissions
  /\ IF isConnected
       THEN /\ saving' = [pc |-> "awaitSigner",
                          scoreData |-> [address |-> currentAddress, score |-> score],
                          result |-> null]
            /\ submitted' = [submitted EXCEPT ![currentAddress][score] = @ + 1]
       ELSE /\ saving' = [pc |-> "returned",
                          scoreData |-> [address |-> currentAddress, score |-> score],
                          result |-> null]
            /\ UNCHANGED submitted
  /\ walletChanged' = NoEvent
  /\ UNCHANGED <<isInitialized, currentAddress, appKitState, stateUpdates, bz_wallet,
                 bz_lastConnected, now, connecting, bz_walletScores>>
  /\ UNCHANGED levelvars

\* saveScoreOnChain after getSigner() has settled: without a signer it
\* returns null, with one it stores the score under the current address
SaveScoreResume(signer) ==
  /\ saving.pc = "awaitSigner"
  /\ IF signer
       THEN /\ bz_walletScores' =
                 Item(pushScore(parseWalletScores(bz_walletScores), currentAddress,
                                saving.scoreData))
            /\ saving' = [saving EXCEPT !.pc = "returned", !.result = "local_save"]
       ELSE /\ saving' = [saving EXCEPT !.pc = "returned", !.result = null]
            /\ UNCHANGED bz_walletScores
  /\ walletChanged' = NoEvent
  /\ UNCHANGED <<isInitialized, currentAddress, appKitState, stateUpdates, bz_wallet,
                 bz_lastConnected, now, connecting, submitted>>
  /\ UNCHANGED levelvars

\* an initialized manager with no wallet connected, over a store that holds
\* the nine earlier scores
InitScores ==
  /\ LevelIdle
  /\ isInitialized = TRUE
  /\ currentAddress = null
  /\ appKitState = State(null)
  /\ stateUpdates = <<>>
  /\ bz_wallet = NoItem
  /\ bz_lastConnected = NoItem
  /\ now = 0
  /\ walletChanged = NoEvent
  /\ connecting = NotConnecting
  /\ saving = NotSaving
  /\ bz_walletScores = Item([key \in {"0xA"} |-> PreviousScores])
  /\ submitted = [NoneSubmitted EXCEPT
                    !["0xA"] = [score \in Scores |->
                                  Cardinality({i \in 1..Len(PreviousScores) :
                                                PreviousScores[i].score = score})]]

NextScores ==
  \/ \E address \in Addresses \cup {null} : AppKitStateChange(address)
  \/ SubscriptionCallback
  \/ \E score \in Scores : SaveScoreOnChain(score)
  \/ \E signer \in BOOLEAN : SaveScoreResume(signer)

SpecScores == InitScores /\ [][NextScores]_vars

----------------------------------------------------------------------------
(* Properties *)

\* the persisted furthest level as saveProgress and getFurthestLevel read it
StoredValue(ls) == parseInt(getItemOrDefault(ls))

\* C1: on a freshly constructed manager the k-th consecutive nextLevel() call
\* returns k+1 and leaves currentLevel = k+1; isBeastMode() is false after each
\* of the first 49 calls and true from the 50th call (level 51) on.
C1_NextLevelCountsUp ==
  calls # NotFresh =>
    /\ currentLevel = calls + 1
    /\ (lastCall = "nextLevel" => returned = Number(calls + 1))
    /\ (isBeastMode(currentLevel) <=> calls >= 50)
    /\ (lastCall = "isBeastMode" => returned = Bool(calls >= 50))

C1_Witness ==
  /\ calls = 51
  /\ lastCall = "isBeastMode"
  /\ returned = Bool(TRUE)
  /\ currentLevel = 52

\* C2: resetToStart() sets currentLevel to 1 and leaves the persisted furthest
\* level untouched: getFurthestLevel() answers the same before and after.
C2_ResetKeepsFurthest ==
  [][lastCall' = "resetToStart" =>
       /\ currentLevel' = 1
       /\ localStorage' = localStorage
       /\ getFurthestLevel(localStorage', storageMode')
            = getFurthestLevel(localStorage, storageMode)]_vars

C2_Witness ==
  /\ lastCall = "resetToStart"
  /\ currentLevel = 1
  /\ storageMode = "ok"
  /\ getFurthestLevel(localStorage, storageMode) = Number(10)

\* C3: the persisted furthest level never decreases, over any calls and any
\* newly constructed managers, and it changes only in a nextLevel or
\* setCurrentLevel step whose new currentLevel exceeds the value stored before,
\* which then becomes the stored value.
C3_FurthestMonotone ==
  [][/\ \/ localStorage' = localStorage
        \/ Gt(StoredValue(localStorage'), StoredValue(localStorage))
     /\ localStorage' # localStorage =>
          /\ lastCall' \in {"nextLevel", "setCurrentLevel"}
          /\ Gt(Number(currentLevel'), StoredValue(localStorage))
          /\ StoredValue(localStorage') = Number(currentLevel')]_vars

C3_Witness ==
  /\ lastCall = "constructor"
  /\ currentLevel = 1
  /\ localStorage = Item(<<"1", "2">>)

\* C4: getFurthestLevel() returns 1 when no value is stored, when the read
\* throws, or when the stored value is not parseable as an integer; otherwise
\* it returns the stored integer.
C4_FurthestDefaultsToOne ==
  lastCall = "getFurthestLevel" =>
    returned = IF \/ storageMode = "readThrows"
                  \/ ~localStorage.has
                  \/ parseInt(localStorage.val) = NaN
               THEN Number(1)
               ELSE parseInt(localStorage.val)

\* C5: for every levelNumber >= 51 the config is endless with floorCount -1
\* and every difficulty-derived field equals that of level 50; for every
\* levelNumber in 1..50 it is not endless and floorCount >= 1.
C5_BeastConfigCapped ==
  lastCall = "getLevelConfig" =>
    /\ arg >= 51 =>
         /\ config.isEndless
         /\ config.floorCount = -1
         /\ config.difficultyBudgetPerFloor = getLevelConfig(50).difficultyBudgetPerFloor
         /\ config.enemySpawnWeights = getLevelConfig(50).enemySpawnWeights
         /\ config.worldWidth = getLevelConfig(50).worldWidth
         /\ config.collectibleTypes = getLevelConfig(50).collectibleTypes
         /\ config.enemyTypes = getLevelConfig(50).enemyTypes
    /\ arg \in 1..50 =>
         /\ ~config.isEndless
         /\ config.floorCount >= 1

C5_Witness ==
  /\ lastCall = "getLevelConfig"
  /\ arg = 52
  /\ config.levelNumber = 52
  /\ config.isEndless
  /\ config.worldWidth = 40

\* phase of a level in 1..50 and the floor-count range documented for it
PhaseOf(levelNumber) ==
  IF levelNumber <= 10 THEN 1
  ELSE IF levelNumber <= 25 THEN 2
  ELSE IF levelNumber <= 40 THEN 3
  ELSE 4

PhaseFloors(phase) ==
  IF phase = 1 THEN 10..12
  ELSE IF phase = 2 THEN 13..18
  ELSE IF phase = 3 THEN 19..25
  ELSE 25..30

\* C6: for every levelNumber in 1..50 floorCount lies in the range of the
\* level's phase, and within a phase floorCount is non-decreasing in the level.
C6_FloorCountInPhaseRange ==
  (lastCall = "getLevelConfig" /\ arg \in 1..50) =>
    /\ config.floorCount \in PhaseFloors(PhaseOf(arg))
    /\ \A lower \in 1..arg :
         PhaseOf(lower) = PhaseOf(arg) =>
           getLevelConfig(lower).floorCount <= config.floorCount

C6_Witness ==
  /\ lastCall = "getLevelConfig"
  /\ arg = 40
  /\ config.floorCount = 25

\* C7: isLevelComplete(currentFloor) is false when currentLevel >= 51, and
\* otherwise true exactly when currentFloor >= the floorCount of the config of
\* the active currentLevel.
C7_LevelCompleteUsesActiveLevel ==
  lastCall = "isLevelComplete" =>
    returned = Bool(IF currentLevel >= 51 THEN FALSE
                    ELSE arg >= getLevelConfig(currentLevel).floorCount)

C7_Witness ==
  /\ lastCall = "isLevelComplete"
  /\ currentLevel = 11
  /\ calls = NotFresh
  /\ arg = 12
  /\ returned = Bool(FALSE)

\* C8 as stated: once in BeastMode, no call other than resetToStart() takes
\* the manager out of BeastMode.
C8_OnlyResetLeavesBeastMode ==
  [][(isBeastMode(currentLevel) /\ lastCall' \notin {"resetToStart", "constructor"})
       => isBeastMode(currentLevel')]_vars

\* C8 amended: once in BeastMode, nextLevel() and the queries keep the manager
\* there; it leaves only by resetToStart(), which returns to level 1, or by
\* setCurrentLevel(L) with L <= 50, which moves to level L.
C8_ResetOrOverrideLeavesBeastMode ==
  [][isBeastMode(currentLevel) =>
       /\ lastCall' = "resetToStart" => currentLevel' = 1 /\ ~isBeastMode(currentLevel')
       /\ (lastCall' = "setCurrentLevel" /\ arg' <= 50) =>
            currentLevel' = arg' /\ ~isBeastMode(currentLevel')
       /\ (/\ lastCall' \notin {"resetToStart", "constructor"}
           /\ ~(lastCall' = "setCurrentLevel" /\ arg' <= 50))
            => isBeastMode(currentLevel')]_vars

C8_Witness ==
  /\ lastCall = "nextLevel"
  /\ currentLevel = 52
  /\ isBeastMode(currentLevel)

\* C9: isBeastMode(), the isEndless flag and the floorCount sentinel -1 of the
\* config of currentLevel agree with currentLevel >= 51 in every state, so also
\* in the state right after the nextLevel/setCurrentLevel call that crosses 51.
C9_BeastIndicatorsAgree ==
  LET cfg == getLevelConfig(currentLevel)
  IN /\ isBeastMode(currentLevel) <=> currentLevel >= 51
     /\ cfg.isEndless <=> currentLevel >= 51
     /\ cfg.floorCount = -1 <=> currentLevel >= 51
     /\ lastCall = "isBeastMode" => returned = Bool(currentLevel >= 51)

C9_Witness ==
  /\ lastCall = "setCurrentLevel"
  /\ arg = 51
  /\ isBeastMode(currentLevel)
  /\ getLevelConfig(currentLevel).isEndless
  /\ getLevelConfig(currentLevel).floorCount = -1

\* C10: with a working store, right after nextLevel() or setCurrentLevel(L)
\* getFurthestLevel() answers the maximum of the furthest level before the call
\* and currentLevel after it (NaN, as Math.max would, when the stored text is
\* no number).
C10_FurthestSeesUpdate ==
  [][(lastCall' \in {"nextLevel", "setCurrentLevel"} /\ storageMode = "ok") =>
       LET before == getFurthestLevel(localStorage, storageMode)
           after == getFurthestLevel(localStorage', storageMode')
       IN IF before.t = "number"
            THEN after = Number(IF before.n >= currentLevel' THEN before.n ELSE currentLevel')
            ELSE after = before]_vars

C10_Witness ==
  /\ lastCall = "nextLevel"
  /\ storageMode = "ok"
  /\ currentLevel = 8
  /\ getFurthestLevel(localStorage, storageMode) = Number(8)

\* C11: when the store throws on read or on write during the persistence
\* update, nextLevel() and setCurrentLevel(L) still return normally:
\* currentLevel has its new value, nextLevel() returns it, and the persisted
\* item is left as it was.
C11_StoreFailureIsSwallowed ==
  [][(lastCall' \in {"nextLevel", "setCurrentLevel"} /\ storageMode # "ok") =>
       /\ returned' # Threw
       /\ localStorage' = localStorage
       /\ lastCall' = "nextLevel" =>
            currentLevel' = currentLevel + 1 /\ returned' = Number(currentLevel + 1)
       /\ lastCall' = "setCurrentLevel" => currentLevel' = arg']_vars

\* a new furthest level whose write failed: the counter stayed behind
C11_Witness ==
  /\ lastCall = "nextLevel"
  /\ storageMode = "writeThrows"
  /\ returned = Number(8)
  /\ currentLevel = 8
  /\ localStorage = Item(<<"7">>)

\* C12: a level number <= 0 is never accepted as is: currentLevel >= 1 in
\* every state and every LevelConfig returned has levelNumber >= 1.
C12_InvalidLevelNeverAccepted ==
  /\ currentLevel >= 1
  /\ lastCall = "getLevelConfig" => config.levelNumber >= 1

QueryNames ==
  {"getLevelConfig", "isLevelComplete", "isBeastMode", "getCurrentLevel",
   "getFurthestLevel", "getMaxProgressionLevel"}

\* C13: a query changes neither currentLevel nor the persisted item, and the
\* config getLevelConfig returns for a level number is the same whatever
\* currentLevel and the store hold: no step changes the config of a queried
\* level number, and a call returns the config of its argument.
C13_QueriesArePure ==
  [][/\ lastCall' \in QueryNames =>
          currentLevel' = currentLevel /\ localStorage' = localStorage
     /\ \A levelNumber \in QueryLevels :
          getLevelConfig(levelNumber)' = getLevelConfig(levelNumber)
     /\ lastCall' = "getLevelConfig" =>
          /\ config'.levelNumber = arg'
          /\ config' = getLevelConfig(arg')]_vars

\* level 51 queried while the manager is on level 7 with 12 as furthest level
C13_Witness ==
  /\ lastCall = "getLevelConfig"
  /\ arg = 51
  /\ config.isEndless
  /\ currentLevel = 7
  /\ localStorage = Item(<<"1", "2">>)

\* C14: every newly constructed LevelManager has currentLevel = 1 whatever
\* furthest level is persisted, and constructing it leaves the persisted item
\* as it was.
C14_ConstructedAtLevelOne ==
  /\ [](lastCall = "constructor" => currentLevel = 1)
  /\ [][lastCall' = "constructor" => localStorage' = localStorage]_vars

\* a later session: level 52 was reached before, the new manager is on level 1
C14_Witness ==
  /\ lastCall = "constructor"
  /\ currentLevel = 1
  /\ calls = 0
  /\ localStorage = Item(<<"5", "2">>)

\* the kinds of a collectibleTypes array, as a set
Kinds(types) == {types[i] : i \in DOMAIN types}

\* C15: the collectible palette is inclusive in the level: the set of a level
\* contains the set of every lower level (>= 1); level 7 contains level 3,
\* which contains level 1.
C15_PaletteInclusive ==
  (lastCall = "getLevelConfig" /\ arg >= 1) =>
    /\ \A lower \in 1..arg :
         Kinds(getLevelConfig(lower).collectibleTypes) \subseteq Kinds(config.collectibleTypes)
    /\ arg = 7 => Kinds(getLevelConfig(3).collectibleTypes) \subseteq Kinds(config.collectibleTypes)
    /\ arg = 3 => Kinds(getLevelConfig(1).collectibleTypes) \subseteq Kinds(config.collectibleTypes)

C15_Witness ==
  /\ lastCall = "getLevelConfig"
  /\ arg = 7
  /\ Kinds(config.collectibleTypes) # Kinds(getLevelConfig(3).collectibleTypes)
  /\ Kinds(getLevelConfig(3).collectibleTypes) # Kinds(getLevelConfig(1).collectibleTypes)

\* the palette the doc comment of getCollectibleTypes gives for a level
DocumentedCollectibles(levelNumber) ==
  IF levelNumber <= 2 THEN {"coin"}
  ELSE IF levelNumber = 3 THEN {"coin", "blueCoin"}
  ELSE IF levelNumber <= 6
    THEN {"coin", "blueCoin", "diamond", "freeLife", "invincibilityPendant"}
  ELSE {"coin", "blueCoin", "diamond", "freeLife", "invincibilityPendant", "treasureChest"}

\* C16: the palette follows the documented thresholds: coins only at levels
\* 1-2, blue coins from level 3, diamonds, free lives and pendants from level
\* 4, treasure chests only from level 7.
C16_PaletteAsDocumented ==
  (lastCall = "getLevelConfig" /\ arg >= 1) =>
    Kinds(config.collectibleTypes) = DocumentedCollectibles(arg)

\* C17: worldWidth is 24 below level 25, 32 from 25 to 49 and 40 from 50 on,
\* so it is non-decreasing in the level and one of 24, 32, 40.
C17_WorldWidthSteps ==
  (lastCall = "getLevelConfig" /\ arg >= 1) =>
    /\ config.worldWidth = IF arg < 25 THEN 24 ELSE IF arg < 50 THEN 32 ELSE 40
    /\ config.worldWidth \in {24, 32, 40}
    /\ \A lower \in 1..arg : getLevelConfig(lower).worldWidth <= config.worldWidth

C17_Witness ==
  /\ lastCall = "getLevelConfig"
  /\ arg = 25
  /\ config.worldWidth = 32
  /\ getLevelConfig(24).worldWidth = 24

\* C18: getEnemyTypesForFloor asks EnemySpawningSystem for the budget of
\* (c, floorNumber) with c = min(levelNumber, 50), then for a selection under
\* that budget at level c, and returns the selection unchanged; for every
\* levelNumber >= 50 the requests are those of level 50 and the same floor;
\* currentLevel and the persisted item stay as they were.
C18_DelegatesWithCappedLevel ==
  /\ [](spawn.pc = "returned" =>
          LET c == IF spawn.levelNumber >= 50 THEN 50 ELSE spawn.levelNumber
          IN /\ Len(spawn.requests) = 2
             /\ spawn.requests[1] = Request("getDifficultyBudget", c, spawn.floorNumber)
             /\ spawn.requests[2] =
                  Request("selectEnemies", getDifficultyBudget(c, spawn.floorNumber), c)
             /\ spawn.enemies = spawn.answer)
  /\ [][spawn' # spawn =>
          currentLevel' = currentLevel /\ localStorage' = localStorage]_vars

\* BEAST MODE level, one floor past the longest level, two enemies answered
C18_Witness ==
  /\ spawn.pc = "returned"
  /\ spawn.levelNumber = 52
  /\ spawn.floorNumber = 31
  /\ spawn.requests[1].first = 50
  /\ spawn.enemies = <<"red", "blue">>

\* C19: at every step of selectEnemies the summed cost of the kinds selected
\* so far is at most the budget (and the budget left is never negative); with
\* budget 0 the result is the empty sequence.
C19_SelectionWithinBudget ==
  selection.pc # "idle" =>
    /\ SumCost(selection.selected) <= selection.budget
    /\ selection.remaining = selection.budget - SumCost(selection.selected)
    /\ selection.remaining >= 0
    /\ selection.budget = 0 => selection.selected = <<>>

\* the budget is used up exactly, by an expensive and a cheap kind
C19_Witness ==
  /\ selection.pc = "done"
  /\ selection.budget = MaxBudget
  /\ selection.remaining = 0
  /\ "red" \in Kinds(selection.selected)

\* C20: selectEnemies terminates for every budget and every sequence of
\* draws: it never makes more draws than the safety cap, and it ends as soon
\* as no affordable kind remains or the cap is reached.
C20_SelectTerminates ==
  /\ <>(selection.pc = "done")
  /\ [](selection.iterations <= SafetyIterationCap)
  /\ [](selection.pc = "done" =>
          \/ Affordable(selection.remaining) = {}
          \/ selection.iterations = SafetyIterationCap)

\* every draw was too expensive: the cap ended the loop with budget left
C20_Witness ==
  /\ selection.pc = "done"
  /\ selection.iterations = SafetyIterationCap
  /\ selection.selected = <<>>
  /\ Affordable(selection.remaining) # {}

\* C21: over a working store that starts empty or with a level >= 1, the
\* furthest level is never below the current level, and the persisted value
\* is the maximum of its initial value and of every level that nextLevel and
\* setCurrentLevel have set
C21_FurthestIsRunningMaximum ==
  LET furthest == getFurthestLevel(localStorage, storageMode)
      highest == IF audit.highest > audit.initial THEN audit.highest ELSE audit.initial
  IN /\ furthest.t = "number"
     /\ furthest.n >= currentLevel
     /\ StoredValue(localStorage) = Number(highest)

\* the level went past the stored 7 and was then set back below it
C21_Witness ==
  /\ audit.initial = 7
  /\ audit.highest > 7
  /\ lastCall = "setCurrentLevel"
  /\ currentLevel < 7

\* C22: every change of the manager's currentAddress is handled as an account
\* change: the step that changes it leaves the new address under bz_wallet
\* (no item when it became null) and dispatches walletChanged with that
\* address; so whenever currentAddress is set and AppKit holds back no
\* notification, bz_wallet equals currentAddress
C22_AddressChangeIsAccountChange ==
  /\ [][(isInitialized' /\ currentAddress' # currentAddress) =>
          /\ walletChanged' = currentAddress'
          /\ bz_wallet' = IF currentAddress' = null THEN NoItem
                                                   ELSE Item(currentAddress')]_vars
  /\ []((currentAddress # null /\ stateUpdates = <<>>) =>
          bz_wallet = Item(currentAddress))

\* C23: a connect() call whose modal opened always resolves; it resolves with
\* the connected address when a poll observes isConnected while the timeout
\* is still pending, and with null when the timeout fires first; the value it
\* resolved with stays; and once it has resolved the interval is cleared, no
\* poll of the call runs, and currentAddress changes only by the
\* subscription callback
C23_ConnectResolvesOnce ==
  /\ (connecting.opened /\ connecting.promise = "pending")
       ~> (connecting.opened /\ connecting.promise = "fulfilled")
  /\ [][(/\ connecting.opened
         /\ connecting.promise = "pending"
         /\ connecting'.polls = connecting.polls + 1
         /\ appKitState.isConnected) =>
          /\ connecting'.promise = "fulfilled"
          /\ connecting'.value = appKitState.address
          /\ currentAddress' = appKitState.address]_vars
  /\ [][(/\ connecting.opened
         /\ connecting.promise = "pending"
         /\ connecting'.promise = "fulfilled") =>
          IF connecting'.timeout
            THEN /\ connecting'.polls = connecting.polls + 1
                 /\ appKitState.isConnected
            ELSE connecting'.value = null]_vars
  /\ []((connecting.opened /\ connecting.promise = "fulfilled") =>
          ~connecting.interval)
  /\ [][(/\ connecting.opened
         /\ connecting.promise = "fulfilled"
         /\ ~(\E opens \in BOOLEAN, restored \in Addresses \cup {null} :
                Connect(opens, restored))) =>
          /\ connecting'.promise = "fulfilled"
          /\ connecting'.value = connecting.value
          /\ connecting'.polls = connecting.polls
          /\ (currentAddress' # currentAddress =>
                stateUpdates' = Tail(stateUpdates))]_vars

\* a poll resolved the call with the address, and the timeout fired afterwards
C23_Witness ==
  /\ connecting.opened
  /\ connecting.promise = "fulfilled"
  /\ connecting.value \in Addresses
  /\ ~connecting.timeout

\* C24: whenever no saveScoreOnChain call is in flight, every list stored
\* under bz_walletScores belongs to a wallet, has at most 10 entries, is
\* sorted by score in descending order and holds the 10 highest scores ever
\* submitted for that wallet (all of them when fewer were submitted); and a
\* call made while no wallet is connected returns null and leaves
\* bz_walletScores unchanged
C24_TopTenPerWallet ==
  /\ [](saving.pc # "awaitSigner" =>
          LET table == parseWalletScores(bz_walletScores)
              Stored(wallet, score) ==
                Cardinality({i \in 1..Len(walletList(table, wallet)) :
                               walletList(table, wallet)[i].score = score})
              Higher(wallet, score) ==
                LET sum[s \in score..MaxScore] ==
                      IF s = MaxScore THEN 0
                      ELSE submitted[wallet][s + 1] + sum[s + 1]
                IN sum[score]
              Kept(wallet, score) ==
                IF Higher(wallet, score) >= LeaderboardSize THEN 0
                ELSE Min(submitted[wallet][score],
                         LeaderboardSize - Higher(wallet, score))
          IN /\ DOMAIN table \subseteq Addresses
             /\ \A wallet \in DOMAIN table :
                  /\ Len(table[wallet]) <= LeaderboardSize
                  /\ \A i \in 1..Len(table[wallet]) - 1 :
                       table[wallet][i].score >= table[wallet][i + 1].score
             /\ \A wallet \in Addresses, score \in Scores :
                  Stored(wallet, score) = Kept(wallet, score))
  /\ [][(saving.pc # "awaitSigner" /\ saving' # saving /\ ~isConnected) =>
          /\ saving'.pc = "returned"
          /\ saving'.result = null
          /\ bz_walletScores' = bz_walletScores]_vars

====
